---- MODULE Spec2Model ----
(***************************************************************************)
(* Model of moltherm/compute/analysis.py: MolThermDataProcessor over a     *)
(* base directory of reaction directories and an optional document store.  *)
(*                                                                         *)
(* Numbers are fixed point.  Energies (Hartree) are integers counted in    *)
(* 1/EnergyScale Hartree; enthalpies (kcal/mol) and entropies (cal/mol.K)  *)
(* of the output files are integers.  627.509 is 627509/1000 and 4.184 is  *)
(* 523/125, so a reaction enthalpy in J/mol is an integer counted in       *)
(* 1/(125*EnergyScale) J/mol, and so is a reaction entropy in J/mol.K.     *)
(* A float quotient is the exact fraction in lowest terms.                 *)
(*                                                                         *)
(* File names are strings; startswith / endswith / in are the substring    *)
(* tests of the code.  A directory is the sequence listdir returns.        *)
(***************************************************************************)
EXTENDS Integers, Sequences, FiniteSets, TLC

VARIABLES
    fs,        \* base_dir: directory name -> sequence of files (listdir order)
    report,    \* directory name -> content of thermo.txt in it (NoFile if none)
    db,        \* self.db: "None" or "connected"
    molecules, \* collection db["molecules"]: sequence of documents
    thermo,    \* collection db["thermo"]: sequence of documents
    ret        \* outcome of the last operation called

vars == <<fs, report, db, molecules, thermo, ret>>

----------------------------------------------------------------------------
(* Bounds of the model *)

MaxMols == 2        \* .mol files in a reaction directory of the extraction runs
MaxStoreMols == 1   \* .mol files in a reaction directory of the store runs
MaxAtoms == 3       \* atoms of a molecule
MaxDocs == 2        \* documents in the molecules collection
MaxThermo == 2      \* documents in the thermo collection
MaxFiles == 4       \* files in a reaction directory of the file-name runs
EnergyScale == 2    \* energies are counted in 1/EnergyScale Hartree

----------------------------------------------------------------------------
(* Python values *)

Num(n) == [tag |-> "num", v |-> n]
None == [tag |-> "None", v |-> 0]
Missing == [tag |-> "missing", v |-> 0]      \* key absent from a dict

\* d.get(key, 0) or 0
GetOrZero(x) == IF x.tag = "num" THEN x.v ELSE 0

\* str.startswith, str.endswith, sub in str
StartsWith(s, p) == Len(p) <= Len(s) /\ SubSeq(s, 1, Len(p)) = p
EndsWith(s, p) == Len(p) <= Len(s) /\ SubSeq(s, Len(s) - Len(p) + 1, Len(s)) = p
Contains(s, sub) ==
    \E i \in 1..(Len(s) - Len(sub) + 1) : SubSeq(s, i, i + Len(sub) - 1) = sub

\* sum(...) of a sequence of integers
RECURSIVE SumSeq(_)
SumSeq(s) == IF s = <<>> THEN 0 ELSE Head(s) + SumSeq(Tail(s))

\* keys of a dict built from a list: first occurrence order, no duplicates
RECURSIVE DictKeys(_)
DictKeys(s) ==
    IF s = <<>> THEN <<>>
    ELSE LET front == DictKeys(SubSeq(s, 1, Len(s) - 1))
             last == s[Len(s)]
         IN IF \E i \in 1..Len(front) : front[i] = last THEN front
            ELSE Append(front, last)

Abs(n) == IF n < 0 THEN -n ELSE n

RECURSIVE Gcd(_, _)
Gcd(a, b) == IF b = 0 THEN a ELSE Gcd(b, a % b)

\* a / b on floats, b # 0: the exact fraction in lowest terms, denominator > 0
TrueDiv(a, b) ==
    LET g == Gcd(Abs(a), Abs(b))
        s == IF b < 0 THEN -1 ELSE 1
    IN [tag |-> "float", num |-> s * (a \div g), den |-> s * (b \div g)]

\* int(x) of a float counted in 1/EnergyScale: truncation toward zero
IntOf(x) == IF x < 0 THEN -((-x) \div EnergyScale) ELSE x \div EnergyScale

----------------------------------------------------------------------------
(* The base directory *)

reactant_pre == "rct_"
product_pre == "pro_"

\* What QCOutput parses out of a file that is no calculation output
NoData == [enthalpy |-> Missing, entropy |-> Missing,
           final_energy |-> Missing, final_energy_sp |-> Missing,
           molecule |-> Missing]

MolFile(name, atoms) == [name |-> name, atoms |-> atoms, data |-> NoData]
OutFile(name, data) == [name |-> name, atoms |-> 0, data |-> data]

FreqData(h, s) == [NoData EXCEPT !.enthalpy = h, !.entropy = s]
OptData(e, atoms) == [NoData EXCEPT !.final_energy = e, !.molecule = Num(atoms)]
SpData(e) == [NoData EXCEPT !.final_energy_sp = e]

\* The molecule files a reaction directory of the model may hold
MolOrder == <<"rct_1.mol", "rct_2.mol", "pro_3.mol">>
MolUniverse == {MolOrder[i] : i \in 1..Len(MolOrder)}

\* "rct_1.mol" -> "rct_1"
Stem(molname) == SubSeq(molname, 1, Len(molname) - 4)

NoOut == [tag |-> "nofile", v |-> 0]

\* The calculations run for one molecule: for each calculation type, no output
\* file (NoOut) or the values its output file holds
Profiles ==
    { [opt |-> Num(-1), freq |-> <<Num(10), Num(2)>>, sp |-> Num(-2)],
      [opt |-> Num(-2), freq |-> <<Num(10), Num(2)>>, sp |-> Num(-1)],
      [opt |-> Num(-2), freq |-> <<None, Missing>>,   sp |-> None],
      [opt |-> Num(-1), freq |-> <<Num(0), Num(0)>>,  sp |-> NoOut],
      [opt |-> Num(-2), freq |-> <<NoOut, NoOut>>,    sp |-> Num(-2)],
      [opt |-> Num(-1), freq |-> <<NoOut, NoOut>>,    sp |-> Num(0)],
      [opt |-> NoOut,   freq |-> <<NoOut, NoOut>>,    sp |-> NoOut] }

\* The files of one molecule, in listing order
FilesOfMol(molname, atoms, p) ==
    <<MolFile(molname, atoms)>>
    \o (IF p.freq[1] = NoOut THEN <<>>
        ELSE <<OutFile(Stem(molname) \o "_freq.out", FreqData(p.freq[1], p.freq[2]))>>)
    \o (IF p.opt = NoOut THEN <<>>
        ELSE <<OutFile(Stem(molname) \o "_opt.out", OptData(p.opt, atoms))>>)
    \o (IF p.sp = NoOut THEN <<>>
        ELSE <<OutFile(Stem(molname) \o "_sp.out", SpData(p.sp))>>)

RECURSIVE ListingFrom(_, _, _, _)
ListingFrom(i, M, atoms, p) ==
    IF i > Len(MolOrder) THEN <<>>
    ELSE (IF MolOrder[i] \in M
          THEN FilesOfMol(MolOrder[i], atoms[MolOrder[i]], p[MolOrder[i]])
          ELSE <<>>) \o ListingFrom(i + 1, M, atoms, p)

\* Reaction directories with calculation outputs: at most n molecules, each
\* with the outputs of one of the given profiles (every molecule has one atom
\* here: the atom counts are drawn in the directories of quick_check)
ReactionDirsOf(n, profiles) ==
    UNION { { ListingFrom(1, M, [m \in M |-> 1], p) : p \in [M -> profiles] } :
            M \in { S \in SUBSET MolUniverse : Cardinality(S) <= n } }

ReactionDirs == ReactionDirsOf(MaxMols, Profiles)

\* The directories of the store runs: every calculation done, or the values null
StoreProfiles ==
    { p \in Profiles : p.sp \in {Num(-2), None} /\ p.freq[1] \in {Num(10), None} }

StoreDirs == ReactionDirsOf(MaxStoreMols, StoreProfiles)

\* A file of a reaction directory that is no molecule
Notes == OutFile("rct_notes.txt", NoData)

\* Directories of molecule files alone, each molecule with 1..MaxAtoms atoms
MolDirs ==
    UNION { { ListingFrom(1, M, atoms, [m \in M |-> CHOOSE p \in Profiles : p.opt = NoOut])
                \o <<Notes>> : atoms \in [M -> 1..MaxAtoms] } :
            M \in SUBSET MolUniverse }

Names(listing) == [i \in 1..Len(listing) |-> listing[i].name]

\* the file of that name in a listing
FileNamed(listing, name) ==
    listing[CHOOSE i \in 1..Len(listing) : listing[i].name = name]

----------------------------------------------------------------------------
(* utils.extract_id: the identifier of a molecule file is what follows the  *)
(* last "_" of its name, the ".mol" removed                                 *)

RECURSIVE RemoveMol(_)
RemoveMol(s) ==
    IF Len(s) < 4 THEN s
    ELSE IF SubSeq(s, 1, 4) = ".mol" THEN RemoveMol(SubSeq(s, 5, Len(s)))
         ELSE SubSeq(s, 1, 1) \o RemoveMol(SubSeq(s, 2, Len(s)))

AfterLast(s, c) ==
    LET at == {i \in 1..Len(s) : SubSeq(s, i, i) = c}
    IN IF at = {} THEN s
       ELSE SubSeq(s, (CHOOSE i \in at : \A j \in at : j <= i) + 1, Len(s))

extract_id(name) == AfterLast(RemoveMol(name), "_")

----------------------------------------------------------------------------
(* extract_reaction_thermo_files *)

\* Unit conversions, lines 180-184: 627.509 = HartreeToKcalMilli / 1000 and
\* 4.184 = CalToJ125 / 125
HartreeToKcalMilli == 627509
CalToJ125 == 523

\* BindOutput with the test for "opt" before the test for "freq"
BindOutputOptFirst(out, qcout, acc) ==
    IF Contains(out, "opt")
    THEN [acc EXCEPT !.energy_opt = GetOrZero(qcout.final_energy)]
    ELSE IF Contains(out, "freq")
    THEN [acc EXCEPT !.enthalpy = GetOrZero(qcout.enthalpy),
                     !.entropy = GetOrZero(qcout.entropy)]
    ELSE IF Contains(out, "sp")
    THEN [acc EXCEPT !.energy_sp = GetOrZero(qcout.final_energy_sp)]
    ELSE acc

\* lines 125-131 and 154-160: an output file is bound by the first test its
\* name passes
BindOutput(out, qcout, acc) ==
    IF Contains(out, "freq")
    THEN [acc EXCEPT !.enthalpy = GetOrZero(qcout.enthalpy),
                     !.entropy = GetOrZero(qcout.entropy)]
    ELSE IF Contains(out, "opt")
    THEN [acc EXCEPT !.energy_opt = GetOrZero(qcout.final_energy)]
    ELSE IF Contains(out, "sp")
    THEN [acc EXCEPT !.energy_sp = GetOrZero(qcout.final_energy_sp)]
    ELSE acc

\* The molecule loop body, lines 121-131 and 150-160: the output files of one
\* molecule in listing order
RECURSIVE ScanOutputs(_, _)
ScanOutputs(outs, acc) ==
    IF outs = <<>> THEN acc
    ELSE ScanOutputs(Tail(outs), BindOutput(Head(outs).name, Head(outs).data, acc))

MolLocals(outs) ==
    ScanOutputs(outs, [enthalpy |-> 0, entropy |-> 0, energy_opt |-> 0, energy_sp |-> 0])

\* line 133: the reactant loop takes the optimization energy if energy_sp == 0
RctUsesSp(energy_sp) == ~(energy_sp = 0)

\* line 164: the product loop takes it if int(energy_sp) == 0
ProUsesSp(energy_sp) == ~(IntOf(energy_sp) = 0)

\* lines 104-107: rct_map[m]
RctOutputs(listing, m) ==
    LET Match(f) == /\ StartsWith(f.name, reactant_pre)
                    /\ Contains(f.name, m)
                    /\ Contains(f.name, ".out")
                    /\ ~EndsWith(f.name, "_copy")
    IN SelectSeq(listing, Match)

\* lines 108-110: pro_map[m]
ProOutputs(listing, m) ==
    LET Match(f) == /\ StartsWith(f.name, product_pre)
                    /\ Contains(f.name, m)
                    /\ Contains(f.name, ".out")
    IN SelectSeq(listing, Match)

\* lines 98-102: the identifiers of the .mol files with a prefix
IdsWithPrefix(listing, pre) ==
    LET Match(f) == EndsWith(f.name, ".mol") /\ StartsWith(f.name, pre)
        mols == SelectSeq(listing, Match)
    IN [i \in 1..Len(mols) |-> extract_id(mols[i].name)]

\* The term one molecule adds to the sums of its role (lines 133-141, 164-172)
MolTerm(key, loc, usesSp) ==
    [key |-> key,
     enthalpy |-> loc.enthalpy,
     entropy |-> loc.entropy,
     energy_opt |-> loc.energy_opt,
     energy_sp |-> loc.energy_sp,
     has_sp |-> usesSp,
     energy |-> IF usesSp THEN loc.energy_sp ELSE loc.energy_opt]

RctTerm(mol, loc) == MolTerm(reactant_pre \o mol, loc, RctUsesSp(loc.energy_sp))
ProTerm(mol, loc) == MolTerm(product_pre \o mol, loc, ProUsesSp(loc.energy_sp))

\* lines 115-142: one term for each key of rct_map
RctTermsOf(listing, keys) ==
    [i \in 1..Len(keys) |-> RctTerm(keys[i], MolLocals(RctOutputs(listing, keys[i])))]
RctTerms(listing) == RctTermsOf(listing, DictKeys(IdsWithPrefix(listing, reactant_pre)))

\* lines 144-173: one term for each key of pro_map
ProTermsOf(listing, keys) ==
    [i \in 1..Len(keys) |-> ProTerm(keys[i], MolLocals(ProOutputs(listing, keys[i])))]
ProTerms(listing) == ProTermsOf(listing, DictKeys(IdsWithPrefix(listing, product_pre)))

\* rct_thermo / pro_thermo after the loop
RoleThermo(terms) ==
    [enthalpy |-> SumSeq([i \in 1..Len(terms) |-> terms[i].enthalpy]),
     entropy |-> SumSeq([i \in 1..Len(terms) |-> terms[i].entropy]),
     energy |-> SumSeq([i \in 1..Len(terms) |-> terms[i].energy]),
     has_sp |-> [k \in {terms[i].key : i \in 1..Len(terms)} |->
                   LET last == CHOOSE i \in 1..Len(terms) :
                                  /\ terms[i].key = k
                                  /\ \A j \in 1..Len(terms) : terms[j].key = k => j <= i
                   IN terms[last].has_sp]]

\* {**a, **b}
DictMerge(a, b) ==
    [k \in DOMAIN a \cup DOMAIN b |-> IF k \in DOMAIN b THEN b[k] ELSE a[k]]

\* FilesEnthalpy with the energy difference left in Hartree
FilesEnthalpyNoHartree(pro, rct) ==
    LET energy == (pro.energy - rct.energy) * 1000
        enthalpy == (pro.enthalpy - rct.enthalpy) * 1000 * EnergyScale
    IN (energy + enthalpy) * CalToJ125

\* lines 180-183: (energy * 627.509 + enthalpy) * 1000 * 4.184
FilesEnthalpy(pro, rct) ==
    LET energy == (pro.energy - rct.energy) * HartreeToKcalMilli
        enthalpy == (pro.enthalpy - rct.enthalpy) * 1000 * EnergyScale
    IN (energy + enthalpy) * CalToJ125

\* line 184
FilesEntropy(pro, rct) == (pro.entropy - rct.entropy) * CalToJ125 * EnergyScale

\* lines 185-188
FilesTCritical(enthalpy, entropy) ==
    IF entropy = 0 THEN [tag |-> "None", num |-> 0, den |-> 1]
    ELSE TrueDiv(enthalpy, entropy)

\* lines 175-197
FilesThermoData(enthalpy, entropy, has_sp) ==
    [enthalpy |-> enthalpy,
     entropy |-> entropy,
     t_critical |-> FilesTCritical(enthalpy, entropy),
     has_sp |-> has_sp]

FilesResult(listing, path, rct_terms, pro_terms, rct_thermo, pro_thermo) ==
    [status |-> "returned",
     error |-> "",
     value |-> [thermo |-> FilesThermoData(FilesEnthalpy(pro_thermo, rct_thermo),
                                           FilesEntropy(pro_thermo, rct_thermo),
                                           DictMerge(pro_thermo.has_sp, rct_thermo.has_sp)),
                directory |-> path,
                reactant_ids |-> IdsWithPrefix(listing, reactant_pre),
                product_ids |-> IdsWithPrefix(listing, product_pre)],
     rct_terms |-> rct_terms,
     pro_terms |-> pro_terms]

FilesFromTerms(listing, path, rct_terms, pro_terms) ==
    FilesResult(listing, path, rct_terms, pro_terms,
                RoleThermo(rct_terms), RoleThermo(pro_terms))

ExtractFiles(listing, path) ==
    FilesFromTerms(listing, path, RctTerms(listing), ProTerms(listing))

----------------------------------------------------------------------------
(* The document store *)

base_dir == "/base"
Join(a, b) == a \o "/" \o b

\* opt / freq / sp: a dict of calculation settings, or None
Settings(m, b, sm, sv) ==
    [tag |-> "dict", method |-> m, basis |-> b, solvent_method |-> sm, solvent |-> sv]
NoSettings ==
    [tag |-> "None", method |-> "", basis |-> "", solvent_method |-> "", solvent |-> ""]

\* calc["input"] of the calculations of each type
InputOf(type) ==
    IF type = "opt"
    THEN [rem |-> [method |-> "wb97x-d", basis |-> "6-311++g*", solvent_method |-> "smd"],
          smx |-> [isNone |-> FALSE, solvent |-> "water"], solvent |-> "None"]
    ELSE IF type = "freq"
    THEN [rem |-> [method |-> "wb97x-d", basis |-> "6-311++g*", solvent_method |-> "pcm"],
          smx |-> [isNone |-> TRUE, solvent |-> "None"], solvent |-> "dielectric"]
    ELSE [rem |-> [method |-> "wb97m-v", basis |-> "def2-tzvppd", solvent_method |-> "None"],
          smx |-> [isNone |-> TRUE, solvent |-> "None"], solvent |-> "None"]

\* The calculation type a stored calculation carries for an output file
TaskType(name) ==
    IF Contains(name, "freq") THEN "freq"
    ELSE IF Contains(name, "opt") THEN "opt"
    ELSE IF Contains(name, "sp") THEN "sp"
    ELSE "other"

CalcOf(f) ==
    [task |-> [type |-> TaskType(f.name), name |-> TaskType(f.name)],
     enthalpy |-> f.data.enthalpy,
     entropy |-> f.data.entropy,
     final_energy |-> f.data.final_energy,
     final_energy_sp |-> f.data.final_energy_sp,
     molecule_from_optimized_geometry |-> f.data.molecule,
     input |-> InputOf(TaskType(f.name))]

Reverse(s) == [i \in 1..Len(s) |-> s[Len(s) + 1 - i]]

\* MolThermDrone.assimilate(path, input_file, output_file): the document of the
\* calculations whose output files in path carry the given file stem, the
\* latest first, each with the values its output file holds
Assimilate(listing, calc_dir, stem) ==
    LET Match(f) == StartsWith(f.name, stem) /\ Contains(f.name, ".out")
        outs == SelectSeq(listing, Match)
    IN [dir_name |-> calc_dir,
        task_label |-> stem,
        mol_id |-> "",
        calcs_reversed |-> Reverse([i \in 1..Len(outs) |-> CalcOf(outs[i])])]

\* collection.find_one({"mol_id": mol_id}): the first such document, or None
FindOne(coll, mol_id) ==
    LET at == {i \in 1..Len(coll) : coll[i].mol_id = mol_id}
    IN IF at = {} THEN [found |-> FALSE, doc |-> <<>>]
       ELSE [found |-> TRUE, doc |-> <<coll[CHOOSE i \in at : \A j \in at : i <= j]>>]

----------------------------------------------------------------------------
(* extract_reaction_thermo_db *)

NoConnection == "RuntimeError: Could not connect to database. Check db_fileand try again later."

Raised(error) == [status |-> "raised", error |-> error]

\* lines 266-283: the settings dict of one stored calculation
DeriveSettings(calc) ==
    LET solvent_method == calc.input.rem.solvent_method
        solvent == IF solvent_method = "smd"
                   THEN (IF calc.input.smx.isNone THEN "None" ELSE calc.input.smx.solvent)
                   ELSE IF solvent_method = "pcm" THEN calc.input.solvent
                   ELSE "None"
    IN Settings(calc.input.rem.method, calc.input.rem.basis, solvent_method, solvent)

\* lines 262-284 (and 285-307, 308-329): a settings value that is None is taken
\* from the first calculation of the record with one of the given types
SettingsFrom(current, calcs, types) ==
    IF current.tag # "None" THEN current
    ELSE LET at == {i \in 1..Len(calcs) : calcs[i].task.type \in types}
         IN IF at = {} THEN current
            ELSE DeriveSettings(calcs[CHOOSE i \in at : \A j \in at : i <= j])

\* lines 260-338: the loop over the records of the .mol files
RECURSIVE SortRecords(_, _, _, _)
SortRecords(i, mol_files, records, st) ==
    IF i > Len(mol_files) \/ st.error # "" THEN st
    ELSE LET filename == mol_files[i]
             record == records[i]
             needs == st.opt.tag = "None" \/ st.freq.tag = "None" \/ st.sp.tag = "None"
         IN IF needs /\ ~record.found
            THEN [st EXCEPT !.error = "TypeError: 'NoneType' object is not subscriptable"]
            ELSE LET calcs == IF record.found THEN record.doc[1].calcs_reversed ELSE <<>>
                     st1 == [st EXCEPT
                               !.opt = SettingsFrom(st.opt, calcs, {"opt", "optimization"}),
                               !.freq = SettingsFrom(st.freq, calcs, {"freq", "frequency"}),
                               !.sp = SettingsFrom(st.sp, calcs, {"sp"})]
                     st2 == IF StartsWith(filename, reactant_pre)
                            THEN [st1 EXCEPT !.reactants = Append(@, record)]
                            ELSE IF StartsWith(filename, product_pre)
                            THEN [st1 EXCEPT !.products = Append(@, record)]
                            ELSE st1
                 IN SortRecords(i + 1, mol_files, records, st2)

\* lines 227-241: get_thermo(job); the last calculation of a type decides, and
\* reading a key a calculation lacks is a KeyError
RECURSIVE ScanCalcs(_, _)
ScanCalcs(calcs, acc) ==
    IF calcs = <<>> THEN acc
    ELSE LET calc == Head(calcs)
             a1 == IF calc.task.type \in {"freq", "frequency"}
                   THEN [acc EXCEPT !.enthalpy = calc.enthalpy, !.entropy = calc.entropy,
                                    !.keyError = @ \/ calc.enthalpy.tag = "missing"
                                                   \/ calc.entropy.tag = "missing"]
                   ELSE acc
             a2 == IF calc.task.type = "sp"
                   THEN [a1 EXCEPT !.energy = calc.final_energy_sp,
                                   !.keyError = @ \/ calc.final_energy_sp.tag = "missing"]
                   ELSE a1
         IN ScanCalcs(Tail(calcs), a2)

get_thermo(job) ==
    ScanCalcs(job.calcs_reversed,
              [enthalpy |-> Num(0), entropy |-> Num(0), energy |-> Num(0),
               keyError |-> FALSE])

ThermoFields(t) == {t.enthalpy, t.entropy, t.energy}

\* lines 349-354: delta_h and delta_s
DbEnthalpy(pro, rct) ==
    LET delta_e == (SumSeq([i \in 1..Len(pro) |-> pro[i].energy.v])
                    - SumSeq([i \in 1..Len(rct) |-> rct[i].energy.v])) * HartreeToKcalMilli
        delta_h == (SumSeq([i \in 1..Len(pro) |-> pro[i].enthalpy.v])
                    - SumSeq([i \in 1..Len(rct) |-> rct[i].enthalpy.v])) * 1000 * EnergyScale
                   + delta_e
    IN delta_h * CalToJ125

DbEntropy(pro, rct) ==
    (SumSeq([i \in 1..Len(pro) |-> pro[i].entropy.v])
     - SumSeq([i \in 1..Len(rct) |-> rct[i].entropy.v])) * CalToJ125 * EnergyScale

\* lines 360-363
DbTCritical(delta_h, delta_s) ==
    IF delta_s = 0 THEN [tag |-> "int", num |-> 0, den |-> 1]
    ELSE TrueDiv(delta_h, delta_s)

\* lines 355-373
DbThermo(delta_h, delta_s) ==
    [enthalpy |-> delta_h,
     entropy |-> delta_s,
     t_critical |-> DbTCritical(delta_h, delta_s)]

DocIds(records) == [i \in 1..Len(records) |-> records[i].doc[1].mol_id]

\* lines 345-373
DbResult(path, st, rct_thermo, pro_thermo) ==
    IF \E i \in 1..Len(rct_thermo) : rct_thermo[i].keyError THEN Raised("KeyError")
    ELSE IF \E i \in 1..Len(pro_thermo) : pro_thermo[i].keyError THEN Raised("KeyError")
    ELSE IF \E x \in UNION ({ThermoFields(rct_thermo[i]) : i \in 1..Len(rct_thermo)}
                            \cup {ThermoFields(pro_thermo[i]) : i \in 1..Len(pro_thermo)}) :
               x.tag = "None"
    THEN Raised("TypeError: unsupported operand type(s) for +: 'int' and 'NoneType'")
    ELSE [status |-> "returned",
          error |-> "",
          value |-> [dir_name |-> path,
                     opt |-> st.opt, freq |-> st.freq, sp |-> st.sp,
                     reactant_ids |-> DocIds(st.reactants),
                     product_ids |-> DocIds(st.products),
                     thermo |-> DbThermo(DbEnthalpy(pro_thermo, rct_thermo),
                                         DbEntropy(pro_thermo, rct_thermo))],
          rct_terms |-> rct_thermo,
          pro_terms |-> pro_thermo]

ThermoOf(records) == [i \in 1..Len(records) |-> get_thermo(records[i].doc[1])]

\* lines 340-346
DbSorted(path, st) ==
    IF st.error # "" THEN Raised(st.error)
    ELSE IF \/ \E i \in 1..Len(st.reactants) : ~st.reactants[i].found
            \/ \E i \in 1..Len(st.products) : ~st.products[i].found
    THEN Raised("TypeError: 'NoneType' object is not subscriptable")
    ELSE DbResult(path, st, ThermoOf(st.reactants), ThermoOf(st.products))

\* lines 246-255
DbRecords(coll, mol_files) ==
    [i \in 1..Len(mol_files) |-> FindOne(coll, extract_id(mol_files[i]))]

DbFromFiles(coll, path, mol_files, opt, freq, sp) ==
    DbSorted(path, SortRecords(1, mol_files, DbRecords(coll, mol_files),
                               [opt |-> opt, freq |-> freq, sp |-> sp,
                                reactants |-> <<>>, products |-> <<>>, error |-> ""]))

MolFilesOf(listing) ==
    LET IsMol(f) == EndsWith(f.name, ".mol")
    IN [i \in 1..Len(SelectSeq(listing, IsMol)) |-> SelectSeq(listing, IsMol)[i].name]

ExtractDb(listing, conn, coll, directory, opt, freq, sp) ==
    IF conn = "None" THEN Raised(NoConnection)
    ELSE DbFromFiles(coll, Join(base_dir, directory), MolFilesOf(listing), opt, freq, sp)

----------------------------------------------------------------------------
(* The other operations of MolThermDataProcessor *)

\* The methods the class defines (lines 38-773)
Methods ==
    {"quick_check", "extract_reaction_thermo_files", "extract_reaction_thermo_db",
     "record_molecule_data_db", "record_reaction_data_db", "record_reaction_data_file",
     "copy_outputs_across_directories", "find_common_reactants",
     "map_reactants_to_reactions", "get_completed_molecules",
     "get_completed_reactions", "get_molecule_data", "get_reaction_data"}

NoSource == "RuntimeError: Either database or files must be used to extract thermo data."

\* self.<name>(directory, ...) for the extraction methods
CallExtraction(name, listing, conn, coll, directory, opt, freq, sp) ==
    IF name \notin Methods
    THEN Raised("AttributeError: 'MolThermDataProcessor' object has no attribute")
    ELSE IF name = "extract_reaction_thermo_db"
    THEN ExtractDb(listing, conn, coll, directory, opt, freq, sp)
    ELSE ExtractFiles(listing, directory)

\* AddsUp with the molecule files counted instead of their atoms
AddsUpByFiles(listing) ==
    LET IsRct(f) == StartsWith(f.name, reactant_pre) /\ EndsWith(f.name, ".mol")
        IsPro(f) == StartsWith(f.name, product_pre) /\ EndsWith(f.name, ".mol")
    IN Len(SelectSeq(listing, IsPro)) = Len(SelectSeq(listing, IsRct))

\* lines 57-85, for one directory: do the atom counts of the reactant and of
\* the product .mol files add up to the same total
AddsUp(listing) ==
    LET IsRct(f) == StartsWith(f.name, reactant_pre) /\ EndsWith(f.name, ".mol")
        IsPro(f) == StartsWith(f.name, product_pre) /\ EndsWith(f.name, ".mol")
        rct_mols == SelectSeq(listing, IsRct)
        pro_mols == SelectSeq(listing, IsPro)
        total_pro_length == SumSeq([i \in 1..Len(pro_mols) |-> pro_mols[i].atoms])
        total_rct_length == SumSeq([i \in 1..Len(rct_mols) |-> rct_mols[i].atoms])
    IN total_pro_length = total_rct_length

\* lines 68-85
RECURSIVE QuickCheck(_, _)
QuickCheck(base, dirs) ==
    IF dirs = <<>> THEN <<>>
    ELSE (IF AddsUp(base[Head(dirs)]) THEN <<Head(dirs)>> ELSE <<>>)
         \o QuickCheck(base, Tail(dirs))

\* lines 492-498: the lines written to the report
ReportLines(data) ==
    IF "dir_name" \notin DOMAIN data THEN Raised("KeyError: 'dir_name'")
    ELSE [status |-> "returned", error |-> "",
          lines |-> << <<"Directory", data.dir_name>>,
                       <<"Optimization Input", IF "opt" \in DOMAIN data THEN data.opt ELSE NoSettings>>,
                       <<"Frequency Input", IF "freq" \in DOMAIN data THEN data.freq ELSE NoSettings>>,
                       <<"Single-Point Input", IF "sp" \in DOMAIN data THEN data.sp ELSE NoSettings>>,
                       <<"Reaction Enthalpy", data.thermo.enthalpy>>,
                       <<"Reaction Entropy", data.thermo.entropy>>,
                       <<"Critical/Switching Temperature", data.thermo.t_critical>> >>]

NoFile == [exists |-> FALSE, lines |-> <<>>]
FileWith(lines) == [exists |-> TRUE, lines |-> lines]

\* lines 701-734: get_molecule_data, the store connected
MoleculeData(coll, mol_id) ==
    LET found == FindOne(coll, mol_id)
    IN IF ~found.found THEN Raised("TypeError: 'NoneType' object is not subscriptable")
       ELSE
       LET calcs == found.doc[1].calcs_reversed
           Named(names) == {i \in 1..Len(calcs) : calcs[i].task.name \in names}
           LastOf(S) == calcs[CHOOSE i \in S : \A j \in S : j <= i]
           freqs == Named({"freq", "frequency"})
           sps == Named({"sp"})
           opts == Named({"opt", "optimization"})
       IN IF \E i \in freqs : calcs[i].enthalpy.tag = "missing" \/ calcs[i].entropy.tag = "missing"
          THEN Raised("KeyError")
          ELSE IF \E i \in sps : calcs[i].final_energy_sp.tag = "missing"
          THEN Raised("KeyError")
          ELSE IF \/ \E i \in freqs : calcs[i].enthalpy.tag = "None" \/ calcs[i].entropy.tag = "None"
                  \/ \E i \in sps : calcs[i].final_energy_sp.tag = "None"
          THEN Raised("TypeError: unsupported operand type(s) for *: 'NoneType' and 'float'")
          ELSE IF opts = {} \/ \E i \in opts : calcs[i].molecule_from_optimized_geometry.tag # "num"
          THEN Raised("KeyError: 'molecule'")
          ELSE [status |-> "returned", error |-> "",
                value |-> [id |-> mol_id,
                           enthalpy |-> IF freqs = {} THEN Missing
                                        ELSE Num(LastOf(freqs).enthalpy.v * 1000 * EnergyScale * CalToJ125),
                           entropy |-> IF freqs = {} THEN Missing
                                       ELSE Num(LastOf(freqs).entropy.v * EnergyScale * CalToJ125),
                           energy |-> IF sps = {} THEN Missing
                                      ELSE Num(LastOf(sps).final_energy_sp.v * HartreeToKcalMilli * CalToJ125),
                           number_atoms |-> LastOf(opts).molecule_from_optimized_geometry.v]]

\* [self.get_molecule_data(m) for m in mol_ids]: the first error ends it
MoleculeDataList(coll, mol_ids) ==
    LET each == [i \in 1..Len(mol_ids) |-> MoleculeData(coll, mol_ids[i])]
        bad == {i \in 1..Len(each) : each[i].status = "raised"}
    IN IF bad # {} THEN each[CHOOSE i \in bad : \A j \in bad : i <= j]
       ELSE [status |-> "returned", error |-> "",
             value |-> [i \in 1..Len(each) |-> each[i].value]]

\* sorted(component_data, key=lambda x: len(x["molecule"])), a stable sort
RECURSIVE SortBySize(_)
SortBySize(s) ==
    IF s = <<>> THEN <<>>
    ELSE LET least == CHOOSE i \in 1..Len(s) :
                          /\ \A j \in 1..Len(s) : s[i].number_atoms <= s[j].number_atoms
                          /\ \A j \in 1..(i - 1) : s[j].number_atoms > s[i].number_atoms
         IN <<s[least]>> \o SortBySize(SubSeq(s, 1, least - 1) \o SubSeq(s, least + 1, Len(s)))

----------------------------------------------------------------------------
(* The state machine: one action per operation of MolThermDataProcessor *)

\* Settings a caller passes for opt, freq and sp
UserSettings == Settings("b3lyp", "6-31g*", "None", "None")
SettingsArgs == { <<NoSettings, NoSettings, NoSettings>>,
                  <<UserSettings, UserSettings, UserSettings>> }

\* use_files, use_db and the settings of a recording call
RecordArgs == BOOLEAN \X BOOLEAN \X SettingsArgs

Dirs == DOMAIN fs

DbIds(mol_files) == [i \in 1..Len(mol_files) |-> extract_id(mol_files[i])]

Range(s) == {s[i] : i \in 1..Len(s)}

Outcome(op, args, out) == [op |-> op, args |-> args] @@ out

\* lines 38-55: the processor after construction, over a base directory with
\* one reaction directory
Init ==
    /\ fs \in [{"rxn"} -> StoreDirs]
    /\ report = [d \in {"rxn"} |-> NoFile]
    /\ db \in {"None", "connected"}
    /\ molecules = <<>>
    /\ thermo = <<>>
    /\ ret = [op |-> "__init__", args |-> <<>>, status |-> "returned", error |-> ""]

\* lines 87-197
extract_reaction_thermo_files(path) ==
    /\ ret' = Outcome("extract_reaction_thermo_files", <<path>>, ExtractFiles(fs[path], path))
    /\ UNCHANGED <<fs, report, db, molecules, thermo>>

\* lines 199-373
extract_reaction_thermo_db(directory, opt, freq, sp) ==
    /\ ret' = Outcome("extract_reaction_thermo_db", <<directory, opt, freq, sp>>,
                      ExtractDb(fs[directory], db, molecules, directory, opt, freq, sp))
    /\ UNCHANGED <<fs, report, db, molecules, thermo>>

\* lines 375-407
record_molecule_data_db(mol_id, calc_dir, input_file, output_file) ==
    LET task_doc == [Assimilate(fs[calc_dir], Join(base_dir, calc_dir), output_file)
                       EXCEPT !.mol_id = mol_id]
        args == <<mol_id, calc_dir, input_file, output_file>>
    IN IF db = "None"
       THEN /\ ret' = Outcome("record_molecule_data_db", args,
                              Raised("RuntimeError: Cannot record data to db without valid database connection!"))
            /\ UNCHANGED <<fs, report, db, molecules, thermo>>
       ELSE /\ Len(molecules) < MaxDocs
            /\ molecules' = Append(molecules, task_doc)
            /\ ret' = Outcome("record_molecule_data_db", args,
                              [status |-> "returned", error |-> ""])
            /\ UNCHANGED <<fs, report, db, thermo>>

\* GatherForDb with the files as the source when none is selected
GatherForDbDefaultFiles(listing, conn, coll, directory, use_files, use_db, opt, freq, sp) ==
    IF conn = "None" THEN Raised(NoConnection)
    ELSE IF use_db THEN ExtractDb(listing, conn, coll, directory, opt, freq, sp)
    ELSE ExtractFiles(listing, directory)

\* lines 434-447: the data record_reaction_data_db gathers
GatherForDb(listing, conn, coll, directory, use_files, use_db, opt, freq, sp) ==
    IF conn = "None" THEN Raised(NoConnection)
    ELSE IF use_db THEN ExtractDb(listing, conn, coll, directory, opt, freq, sp)
    ELSE IF use_files THEN ExtractFiles(listing, directory)
    ELSE Raised(NoSource)

\* InsertThermo as an update in place of the latest document
InsertThermoInPlace(args, data) ==
    IF data.status = "raised"
    THEN /\ ret' = Outcome("record_reaction_data_db", args, data)
         /\ UNCHANGED <<fs, report, db, molecules, thermo>>
    ELSE /\ Len(thermo) < MaxThermo
         /\ thermo' = IF thermo = <<>> THEN <<data.value>>
                      ELSE [thermo EXCEPT ![Len(thermo)] = data.value]
         /\ ret' = Outcome("record_reaction_data_db", args,
                           [status |-> "returned", error |-> "", inserted |-> data.value])
         /\ UNCHANGED <<fs, report, db, molecules>>

\* lines 438-444: collection.insert_one(...) of the gathered result
InsertThermo(args, data) ==
    IF data.status = "raised"
    THEN /\ ret' = Outcome("record_reaction_data_db", args, data)
         /\ UNCHANGED <<fs, report, db, molecules, thermo>>
    ELSE /\ Len(thermo) < MaxThermo
         /\ thermo' = Append(thermo, data.value)
         /\ ret' = Outcome("record_reaction_data_db", args,
                           [status |-> "returned", error |-> "", inserted |-> data.value])
         /\ UNCHANGED <<fs, report, db, molecules>>

\* lines 409-447
record_reaction_data_db(directory, use_files, use_db, opt, freq, sp) ==
    InsertThermo(<<directory, use_files, use_db, opt, freq, sp>>,
                 GatherForDb(fs[directory], db, molecules, directory,
                             use_files, use_db, opt, freq, sp))

\* lines 483-490: the data record_reaction_data_file gathers, by
\* self.extract_reaction_data and self.get_reaction_thermo_files
GatherForFile(listing, conn, coll, directory, use_files, use_db, opt, freq, sp) ==
    IF use_db
    THEN CallExtraction("extract_reaction_data", listing, conn, coll, directory,
                        opt, freq, sp)
    ELSE IF use_files
    THEN CallExtraction("get_reaction_thermo_files", listing, conn, coll, directory,
                        opt, freq, sp)
    ELSE Raised(NoSource)

\* lines 492-498
WriteReport(data) == IF data.status = "raised" THEN data ELSE ReportLines(data.value)

\* line 482: the file is opened for writing ("w+"), and so created or emptied,
\* before the data is gathered
WriteFile(args, directory, written) ==
    /\ report' = [report EXCEPT ![directory] =
                     IF written.status = "raised" THEN FileWith(<<>>)
                     ELSE FileWith(written.lines)]
    /\ ret' = Outcome("record_reaction_data_file", args,
                      [status |-> written.status, error |-> written.error])
    /\ UNCHANGED <<fs, db, molecules, thermo>>

\* lines 449-498
record_reaction_data_file(directory, use_files, use_db, opt, freq, sp) ==
    WriteFile(<<directory, use_files, use_db, opt, freq, sp>>, directory,
              WriteReport(GatherForFile(fs[directory], db, molecules, Join(base_dir, directory),
                                        use_files, use_db, opt, freq, sp)))

\* CompletedReactions without the test for block directories
CompletedReactionsWithBlocks(files, coll) ==
    LET completed_molecules == {coll[i].mol_id : i \in 1..Len(coll)}
    IN {d \in DOMAIN files :
          \A m \in Range(MolFilesOf(files[d])) : extract_id(m) \in completed_molecules}

\* lines 668-686: completed_reactions
CompletedReactions(files, coll) ==
    LET completed_molecules == {coll[i].mol_id : i \in 1..Len(coll)}
        dirs == {d \in DOMAIN files : ~StartsWith(d, "block")}
    IN {d \in dirs :
          \A m \in Range(MolFilesOf(files[d])) : extract_id(m) \in completed_molecules}

\* lines 656-686
get_completed_reactions ==
    /\ ret' = Outcome("get_completed_reactions", <<>>,
                      IF db = "None" THEN Raised(NoConnection)
                      ELSE [status |-> "returned", error |-> "",
                            value |-> CompletedReactions(fs, molecules)])
    /\ UNCHANGED <<fs, report, db, molecules, thermo>>

\* lines 688-734
get_molecule_data(mol_id) ==
    /\ ret' = Outcome("get_molecule_data", <<mol_id>>,
                      IF db = "None"
                      THEN Raised("RuntimeError: Cannot query database; connection is invalid. Try to connect again.")
                      ELSE MoleculeData(molecules, mol_id))
    /\ UNCHANGED <<fs, report, db, molecules, thermo>>

\* lines 766-773
ReactionData(given, mol_ids, component_data) ==
    IF component_data.status = "raised" THEN component_data
    ELSE IF component_data.value = <<>> THEN Raised("IndexError: list index out of range")
    ELSE [status |-> "returned", error |-> "",
          value |-> [directory |-> IF given[1] = "directory" THEN given[2] ELSE "None",
                     mol_ids |-> mol_ids,
                     product |-> SortBySize(component_data.value)[Len(component_data.value)],
                     reactants |-> SubSeq(SortBySize(component_data.value), 1,
                                          Len(component_data.value) - 1)]]

\* lines 753-760
ReactionMolIds(coll, given) ==
    LET InDir(e) == e.dir_name = Join(base_dir, given[2])
    IN IF given[1] = "directory"
       THEN [i \in 1..Len(SelectSeq(coll, InDir)) |->
               extract_id(SelectSeq(coll, InDir)[i].task_label)]
       ELSE given[2]

ReactionDataOf(coll, given, mol_ids) ==
    ReactionData(given, mol_ids, MoleculeDataList(coll, mol_ids))

\* lines 736-773; given is <<"directory", d>>, <<"mol_ids", ids>> or <<"neither">>
get_reaction_data(given) ==
    /\ ret' = Outcome("get_reaction_data", given,
                      IF db = "None"
                      THEN Raised("AttributeError: 'NoneType' object has no attribute 'db'")
                      ELSE IF given[1] = "neither"
                      THEN Raised("ValueError: get_reaction_data requires either a directory or a set of molecule ids.")
                      ELSE ReactionDataOf(molecules, given, ReactionMolIds(molecules, given)))
    /\ UNCHANGED <<fs, report, db, molecules, thermo>>

Next ==
    \/ \E d \in Dirs : extract_reaction_thermo_files(d)
    \/ \E d \in Dirs, a \in SettingsArgs : extract_reaction_thermo_db(d, a[1], a[2], a[3])
    \/ \E d \in Dirs : \E m \in Range(MolFilesOf(fs[d])) :
          record_molecule_data_db(extract_id(m), d, Stem(m), Stem(m))
    \/ \E d \in Dirs, r \in RecordArgs :
          record_reaction_data_db(d, r[1], r[2], r[3][1], r[3][2], r[3][3])
    \/ \E d \in Dirs, r \in RecordArgs :
          record_reaction_data_file(d, r[1], r[2], r[3][1], r[3][2], r[3][3])
    \/ get_completed_reactions
    \/ \E d \in Dirs : \E m \in Range(MolFilesOf(fs[d])) : get_molecule_data(extract_id(m))
    \/ \E d \in Dirs :
          \E given \in { <<"directory", d>>, <<"neither">>,
                         <<"mol_ids", DbIds(MolFilesOf(fs[d]))>> } :
             get_reaction_data(given)

Spec == Init /\ [][Next]_vars

----------------------------------------------------------------------------
(* The extraction of reaction thermodynamics from both sources, over the    *)
(* reaction directories of every profile                                   *)

InitExtract ==
    /\ fs \in [{"rxn"} -> ReactionDirs]
    /\ report = [d \in {"rxn"} |-> NoFile]
    /\ db \in {"None", "connected"}
    /\ molecules = <<>>
    /\ thermo = <<>>
    /\ ret = [op |-> "__init__", args |-> <<>>, status |-> "returned", error |-> ""]

NextExtract ==
    \/ \E d \in Dirs : extract_reaction_thermo_files(d)
    \/ \E d \in Dirs, a \in SettingsArgs : extract_reaction_thermo_db(d, a[1], a[2], a[3])
    \/ \E d \in Dirs : \E m \in Range(MolFilesOf(fs[d])) :
          record_molecule_data_db(extract_id(m), d, Stem(m), Stem(m))

SpecExtract == InitExtract /\ [][NextExtract]_vars

----------------------------------------------------------------------------
(* quick_check over a base directory of two reaction directories *)

\* lists of directories passed to quick_check
DirLists == {<<>>} \cup {<<a>> : a \in {"rxn1", "rxn2"}}
            \cup {<<a, b>> : a, b \in {"rxn1", "rxn2"}}

InitQuick ==
    /\ fs \in [{"rxn1", "rxn2"} -> MolDirs]
    /\ report = [d \in {"rxn1", "rxn2"} |-> NoFile]
    /\ db = "None"
    /\ molecules = <<>>
    /\ thermo = <<>>
    /\ ret = [op |-> "__init__", args |-> <<>>, status |-> "returned", error |-> ""]

\* lines 57-85
quick_check(dirs) ==
    /\ ret' = Outcome("quick_check", <<dirs>>,
                      [status |-> "returned", error |-> "", value |-> QuickCheck(fs, dirs)])
    /\ UNCHANGED <<fs, report, db, molecules, thermo>>

NextQuick == \E dirs \in DirLists : quick_check(dirs)

SpecQuick == InitQuick /\ [][NextQuick]_vars

----------------------------------------------------------------------------
(* Properties *)

Returned(op) == ret.op = op /\ ret.status = "returned"

\* the total atom count of the .mol files of a listing with a prefix
RECURSIVE AtomTotal(_, _, _)
AtomTotal(listing, pre, i) ==
    IF i > Len(listing) THEN 0
    ELSE (IF StartsWith(listing[i].name, pre) /\ EndsWith(listing[i].name, ".mol")
          THEN listing[i].atoms ELSE 0) + AtomTotal(listing, pre, i + 1)

Conserves(d) == AtomTotal(fs[d], reactant_pre, 1) = AtomTotal(fs[d], product_pre, 1)

\* C1: quick_check returns exactly the input directories, in input order, whose
\* reactant .mol files and product .mol files hold the same total number of
\* atoms: none with different totals is returned, none with equal totals is
\* left out.
C1_QuickCheckConserving ==
    Returned("quick_check") =>
        LET dirs == ret.args[1]
            keep == {i \in 1..Len(dirs) : Conserves(dirs[i])}
        IN /\ Len(ret.value) = Cardinality(keep)
           /\ \A k \in 1..Len(ret.value) :
                 \E i \in keep : /\ Cardinality({j \in keep : j < i}) = k - 1
                                 /\ ret.value[k] = dirs[i]

\* a directory with 3 reactant atoms in two files and 3 product atoms is kept
\* and one with 4 against 3 is dropped
C1_Witness ==
    /\ Returned("quick_check")
    /\ ret.args[1] = <<"rxn2", "rxn1">>
    /\ AtomTotal(fs["rxn1"], reactant_pre, 1) = 3
    /\ AtomTotal(fs["rxn1"], product_pre, 1) = 3
    /\ Len(MolFilesOf(fs["rxn1"])) = 3
    /\ AtomTotal(fs["rxn2"], reactant_pre, 1) = 4
    /\ AtomTotal(fs["rxn2"], product_pre, 1) = 3
    /\ ret.value = <<"rxn1">>

\* the value of a term of a role's sums, from either source
TermValue(x) == IF ret.op = "extract_reaction_thermo_db" THEN x.v ELSE x

RECURSIVE TermSum(_, _, _)
TermSum(terms, field, i) ==
    IF i > Len(terms) THEN 0
    ELSE TermValue(terms[i][field]) + TermSum(terms, field, i + 1)

Delta(field) == TermSum(ret.pro_terms, field, 1) - TermSum(ret.rct_terms, field, 1)

Extracted ==
    /\ ret.op \in {"extract_reaction_thermo_files", "extract_reaction_thermo_db"}
    /\ ret.status = "returned"

\* C4: from both sources the reaction enthalpy is ((product enthalpies -
\* reactant enthalpies) + (product energies - reactant energies) * 627.509)
\* * 1000 * 4.184 and the reaction entropy is (product entropies - reactant
\* entropies) * 4.184; an enthalpy difference of 10 kcal/mol with an entropy
\* difference of 2 cal/mol.K and no energy difference gives 41840 J/mol,
\* 8.368 J/mol.K and a critical temperature of 5000 K.  (Enthalpy and entropy
\* are counted in 1/(125 * EnergyScale); 627.509 * 1000 * EnergyScale and
\* 4.184 * 125 are integers.)
C4_UnitConversion ==
    Extracted =>
        /\ ret.value.thermo.enthalpy =
              (Delta("enthalpy") * 1000 * EnergyScale + Delta("energy") * 627509) * 523
        /\ ret.value.thermo.entropy = Delta("entropy") * EnergyScale * 523
        /\ (Delta("enthalpy") = 10 /\ Delta("entropy") = 2 /\ Delta("energy") = 0) =>
              /\ ret.value.thermo.enthalpy = 41840 * 125 * EnergyScale
              /\ ret.value.thermo.entropy * 1000 = 8368 * 125 * EnergyScale
              /\ ret.value.thermo.t_critical = [tag |-> "float", num |-> 5000, den |-> 1]

\* the database extraction of a reaction with differences 10, 2 and 0
C4_Witness ==
    /\ Returned("extract_reaction_thermo_db")
    /\ Len(ret.rct_terms) = 1 /\ Len(ret.pro_terms) = 1
    /\ Delta("enthalpy") = 10 /\ Delta("entropy") = 2 /\ Delta("energy") = 0
    /\ ret.rct_terms[1].energy.v # 0
    /\ ret.value.thermo.t_critical.num = 5000

Recording == {"record_reaction_data_db", "record_reaction_data_file"}

NeitherSource == ret.op \in Recording /\ ~ret.args[2] /\ ~ret.args[3]

\* C7 as claimed: with use_files = false and use_db = false both recording
\* operations end in the RuntimeError saying that either database or files
\* must be used.
C7_Claimed ==
    NeitherSource => ret.status = "raised" /\ ret.error = NoSource

\* C7, amended: with use_files = false and use_db = false,
\* record_reaction_data_file ends in the RuntimeError saying that either
\* database or files must be used, and so does record_reaction_data_db when
\* the store is connected; without a store connection record_reaction_data_db
\* ends in the RuntimeError naming the missing connection.  In each case no
\* document is added to the thermo collection and no report line is written.
C7_NeitherSourceRaises ==
    [][ (ret'.op \in Recording /\ ~ret'.args[2] /\ ~ret'.args[3]) =>
          /\ ret'.status = "raised"
          /\ ret'.error = IF ret'.op = "record_reaction_data_db" /\ db = "None"
                          THEN NoConnection ELSE NoSource
          /\ thermo' = thermo
          /\ ret'.op = "record_reaction_data_file" => report'[ret'.args[1]].lines = <<>>
      ]_vars

\* record_reaction_data_db with neither source and a connected, non-empty store
C7_Witness ==
    /\ NeitherSource
    /\ ret.op = "record_reaction_data_db"
    /\ db = "connected"
    /\ ret.error = NoSource
    /\ Len(thermo) = 1

\* The values the output file <key>_<type>.out holds for a molecule <key>
\* ("rct_1", ...), a field read as 0 when the file or the value is missing
HasNumber(listing, name, field) ==
    \E i \in 1..Len(listing) :
        listing[i].name = name /\ listing[i].data[field].tag = "num"

NumberIn(listing, name, field) ==
    IF HasNumber(listing, name, field) THEN FileNamed(listing, name).data[field].v ELSE 0

SpEnergyOf(listing, key) == NumberIn(listing, key \o "_sp.out", "final_energy_sp")
OptEnergyOf(listing, key) == NumberIn(listing, key \o "_opt.out", "final_energy")

\* the energy a molecule is to add to the sums of its role
RuleEnergy(listing, key) ==
    IF SpEnergyOf(listing, key) # 0 THEN SpEnergyOf(listing, key)
    ELSE OptEnergyOf(listing, key)

\* the molecules of a role, in the order of their terms
RoleKeys(listing, pre) ==
    LET Match(f) == EndsWith(f.name, ".mol") /\ StartsWith(f.name, pre)
    IN [i \in 1..Len(SelectSeq(listing, Match)) |-> Stem(SelectSeq(listing, Match)[i].name)]

\* C2: in extract_reaction_thermo_files every molecule, reactant or product,
\* adds its single-point energy to the sum of its role when that energy is
\* present and nonzero and its optimization energy otherwise, and has_sp of
\* the molecule is true exactly when the single-point energy was added.
C2_Claimed ==
    Returned("extract_reaction_thermo_files") =>
        \A terms \in {ret.rct_terms, ret.pro_terms} : \A i \in 1..Len(terms) :
            LET key == terms[i].key
                listing == fs[ret.args[1]]
            IN /\ terms[i].energy = RuleEnergy(listing, key)
               /\ terms[i].has_sp = (SpEnergyOf(listing, key) # 0)
               /\ ret.value.thermo.has_sp[key] = (SpEnergyOf(listing, key) # 0)

\* C3: from both sources the critical temperature is null exactly when the
\* reaction entropy is 0 and the quotient of enthalpy and entropy otherwise.
C3_Claimed ==
    Extracted =>
        LET t == ret.value.thermo.t_critical
            entropy == ret.value.thermo.entropy
            enthalpy == ret.value.thermo.enthalpy
        IN /\ (t.tag = "None") <=> (entropy = 0)
           /\ entropy # 0 =>
                 /\ t.tag = "float"
                 /\ t.den # 0
                 /\ (entropy \div t.den) * t.den = entropy
                 /\ (entropy \div t.den) * t.num = enthalpy

\* every molecule file of a directory has a document in the molecules collection
AllRecorded(d) ==
    \A m \in Range(MolFilesOf(fs[d])) : FindOne(molecules, extract_id(m)).found

ExtractionCalled ==
    \/ ret.op = "extract_reaction_thermo_files"
    \/ ret.op = "extract_reaction_thermo_db" /\ db = "connected" /\ AllRecorded(ret.args[1])

\* C5: from both sources a calculation on which enthalpy, entropy or energy
\* is missing (no such field, a null value, no calculation of the type) adds
\* 0 to the sum, and the extraction returns a result.
C5_Claimed ==
    ExtractionCalled =>
        /\ ret.status = "returned"
        /\ \A pre \in {reactant_pre, product_pre} :
              LET terms == IF pre = reactant_pre THEN ret.rct_terms ELSE ret.pro_terms
                  keys == RoleKeys(fs[ret.args[1]], pre)
                  listing == fs[ret.args[1]]
              IN \A i \in 1..Len(terms) :
                    /\ ~HasNumber(listing, keys[i] \o "_freq.out", "enthalpy")
                          => TermValue(terms[i].enthalpy) = 0
                    /\ ~HasNumber(listing, keys[i] \o "_freq.out", "entropy")
                          => TermValue(terms[i].entropy) = 0
                    /\ (~HasNumber(listing, keys[i] \o "_sp.out", "final_energy_sp")
                        /\ ~HasNumber(listing, keys[i] \o "_opt.out", "final_energy"))
                          => TermValue(terms[i].energy) = 0

StoreBacked ==
    {"extract_reaction_thermo_db", "record_molecule_data_db", "record_reaction_data_db",
     "get_completed_reactions", "get_molecule_data", "get_reaction_data"}

ConnectionErrors ==
    {NoConnection,
     "RuntimeError: Cannot record data to db without valid database connection!",
     "RuntimeError: Cannot query database; connection is invalid. Try to connect again."}

\* C6: without a store connection every store-backed operation ends in the
\* RuntimeError that names the missing connection, returns nothing and inserts
\* nothing into a collection.
C6_Claimed ==
    db = "None" =>
        /\ molecules = <<>> /\ thermo = <<>>
        /\ ret.op \in StoreBacked =>
              ret.status = "raised" /\ ret.error \in ConnectionErrors

\* C8: extract_reaction_thermo_db follows the energy rule of the file-backed
\* extraction: every molecule adds its single-point energy if present and
\* nonzero and its optimization energy otherwise, so that over the documents
\* of a directory's own calculations it gives the enthalpy, the entropy and
\* (where the entropy is not 0) the critical temperature the files give.
C8_Claimed ==
    (Returned("extract_reaction_thermo_db") /\ AllRecorded(ret.args[1])) =>
        LET listing == fs[ret.args[1]]
            files == ExtractFiles(listing, ret.args[1]).value.thermo
        IN /\ \A i \in 1..Len(ret.rct_terms) :
                 ret.rct_terms[i].energy.v = RuleEnergy(listing, RoleKeys(listing, reactant_pre)[i])
           /\ \A i \in 1..Len(ret.pro_terms) :
                 ret.pro_terms[i].energy.v = RuleEnergy(listing, RoleKeys(listing, product_pre)[i])
           /\ ret.value.thermo.enthalpy = files.enthalpy
           /\ ret.value.thermo.entropy = files.entropy
           /\ files.entropy # 0 => ret.value.thermo.t_critical = files.t_critical

\* C9: the results of extract_reaction_thermo_files and of
\* extract_reaction_thermo_db have the same top-level keys and the same keys
\* in their thermo part.
C9_Claimed ==
    Returned("extract_reaction_thermo_db") =>
        /\ DOMAIN ret.value = DOMAIN ExtractFiles(fs[ret.args[1]], ret.args[1]).value
        /\ DOMAIN ret.value.thermo
              = DOMAIN ExtractFiles(fs[ret.args[1]], ret.args[1]).value.thermo

ReportLabels ==
    <<"Directory", "Optimization Input", "Frequency Input", "Single-Point Input",
      "Reaction Enthalpy", "Reaction Entropy", "Critical/Switching Temperature">>

\* the result a recording call with these arguments is to record
GatheredBy(args) ==
    IF args[3] THEN ExtractDb(fs[args[1]], db, molecules, args[1], args[4], args[5], args[6])
    ELSE ExtractFiles(fs[args[1]], args[1])

\* C10: with use_files or use_db, over a directory whose data the source can
\* extract, record_reaction_data_file completes and the report holds exactly
\* the seven lines Directory, Optimization Input, Frequency Input,
\* Single-Point Input, Reaction Enthalpy, Reaction Entropy, Critical/Switching
\* Temperature, in this order, with the thermo values of the result
\* record_reaction_data_db would insert.
C10_Claimed ==
    (/\ ret.op = "record_reaction_data_file"
     /\ ret.args[2] \/ ret.args[3]
     /\ GatheredBy(ret.args).status = "returned") =>
        /\ ret.status = "returned"
        /\ report[ret.args[1]].exists
        /\ Len(report[ret.args[1]].lines) = 7
        /\ \A i \in 1..7 : report[ret.args[1]].lines[i][1] = ReportLabels[i]
        /\ report[ret.args[1]].lines[5][2] = GatheredBy(ret.args).value.thermo.enthalpy
        /\ report[ret.args[1]].lines[6][2] = GatheredBy(ret.args).value.thermo.entropy
        /\ report[ret.args[1]].lines[7][2] = GatheredBy(ret.args).value.thermo.t_critical

SettingsKeys == <<"opt", "freq", "sp">>

\* the record carries the supplied settings (given[k] for SettingsKeys[k])
Carries(record, given) ==
    \A k \in 1..3 :
        given[k].tag # "None" =>
            /\ SettingsKeys[k] \in DOMAIN record
            /\ record[SettingsKeys[k]] = given[k]

\* C11: a non-null opt, freq or sp given to an extraction or recording
\* operation is the value under that key of the record the operation produces,
\* with the store and with the files as the data source, never one derived
\* from the stored calculations.
C11_Claimed ==
    /\ Returned("extract_reaction_thermo_db") =>
          Carries(ret.value, <<ret.args[2], ret.args[3], ret.args[4]>>)
    /\ Returned("record_reaction_data_db") =>
          /\ Carries(ret.inserted, <<ret.args[4], ret.args[5], ret.args[6]>>)
          /\ Carries(thermo[Len(thermo)], <<ret.args[4], ret.args[5], ret.args[6]>>)

----------------------------------------------------------------------------
(* The store extraction over reaction directories that also hold a molecule *)
(* file with neither prefix                                                 *)

\* A molecule file that is neither reactant nor product
Unprefixed == "mol_4.mol"

\* The directories of the store runs with the files of the unprefixed
\* molecule first or last in the listing
SkipDirs ==
    UNION { { d \o FilesOfMol(Unprefixed, 1, p), FilesOfMol(Unprefixed, 1, p) \o d } :
            <<d, p>> \in StoreDirs \X StoreProfiles }

InitSkip ==
    /\ fs \in [{"rxn"} -> SkipDirs]
    /\ report = [d \in {"rxn"} |-> NoFile]
    /\ db \in {"None", "connected"}
    /\ molecules = <<>>
    /\ thermo = <<>>
    /\ ret = [op |-> "__init__", args |-> <<>>, status |-> "returned", error |-> ""]

NextSkip ==
    \/ \E d \in Dirs, a \in SettingsArgs : extract_reaction_thermo_db(d, a[1], a[2], a[3])
    \/ \E d \in Dirs : \E m \in Range(MolFilesOf(fs[d])) :
          record_molecule_data_db(extract_id(m), d, Stem(m), Stem(m))

SpecSkip == InitSkip /\ [][NextSkip]_vars

\* the files of a listing that belong to a reactant or a product
Prefixed(listing) ==
    LET HasRole(f) == StartsWith(f.name, reactant_pre) \/ StartsWith(f.name, product_pre)
    IN SelectSeq(listing, HasRole)

\* the extraction of the last call, had the directory held its reactant and
\* product files alone
WithoutUnprefixed ==
    ExtractDb(Prefixed(fs[ret.args[1]]), db, molecules,
              ret.args[1], ret.args[2], ret.args[3], ret.args[4])

\* C12: in extract_reaction_thermo_db a .mol file with neither prefix is
\* skipped: wherever the extraction over the reactant and product files alone
\* returns, it returns with that file in the directory too, with the same
\* reactant_ids, product_ids and thermo values.
C12_Claimed ==
    (ret.op = "extract_reaction_thermo_db" /\ WithoutUnprefixed.status = "returned") =>
        /\ ret.status = "returned"
        /\ ret.value.reactant_ids = WithoutUnprefixed.value.reactant_ids
        /\ ret.value.product_ids = WithoutUnprefixed.value.product_ids
        /\ ret.value.thermo = WithoutUnprefixed.value.thermo

----------------------------------------------------------------------------
(* The file-backed extraction over directories in every listing order, with *)
(* file names that share identifiers, carry copies and name several types   *)

AllData(h, s, e, e_sp) ==
    [NoData EXCEPT !.enthalpy = Num(h), !.entropy = Num(s),
                   !.final_energy = Num(e), !.final_energy_sp = Num(e_sp)]

\* The files a directory of these runs may hold
NamedFiles ==
    { MolFile("rct_1.mol", 1),
      MolFile("rct_12.mol", 1),
      MolFile("pro_3.mol", 1),
      OutFile("rct_1_freq.out", FreqData(Num(10), Num(2))),
      OutFile("rct_12_freq.out", FreqData(Num(20), Num(4))),
      OutFile("rct_1_freq.out_copy", FreqData(Num(0), Num(0))),
      OutFile("pro_3_opt_freq.out", AllData(10, 2, -1, 0)),
      OutFile("pro_3_sp.out_copy", SpData(Num(-2))),
      OutFile("x_rct_1_sp.out", SpData(Num(-2))),
      OutFile("pro_3_notes.out", AllData(10, 2, -1, -2)) }

\* listdir(base_path): at most MaxFiles of the files, in any order
NamedDirs ==
    UNION { { l \in [1..n -> NamedFiles] : \A i, j \in 1..n : l[i] = l[j] => i = j } :
            n \in 0..MaxFiles }

InitNames ==
    /\ fs \in [{"rxn"} -> NamedDirs]
    /\ report = [d \in {"rxn"} |-> NoFile]
    /\ db = "None"
    /\ molecules = <<>>
    /\ thermo = <<>>
    /\ ret = [op |-> "__init__", args |-> <<>>, status |-> "returned", error |-> ""]

NextNames == \E d \in Dirs : extract_reaction_thermo_files(d)

SpecNames == InitNames /\ [][NextNames]_vars

\* a listing with the files at i and i + 1 exchanged
Swap(listing, i) ==
    [k \in 1..Len(listing) |->
        IF k = i THEN listing[i + 1] ELSE IF k = i + 1 THEN listing[i] ELSE listing[k]]

\* C13: for a fixed content of the directory every order of the listing gives
\* the same enthalpy, entropy, critical temperature and has_sp map (stated for
\* the exchange of two neighbours in every listing: every order is reached by
\* such exchanges).
C13_Claimed ==
    Returned("extract_reaction_thermo_files") =>
        \A i \in 1..(Len(fs[ret.args[1]]) - 1) :
            ExtractFiles(Swap(fs[ret.args[1]], i), ret.args[1]).value.thermo
                = ret.value.thermo

\* the files of a listing whose name contains the role prefix, the identifier
\* and the output-file marker
NamedFor(listing, pre, m) ==
    LET Match(f) == Contains(f.name, pre) /\ Contains(f.name, m) /\ Contains(f.name, ".out")
    IN SelectSeq(listing, Match)

\* the values a term of a role's sums was built from
LocalsOf(term) ==
    [enthalpy |-> term.enthalpy, entropy |-> term.entropy,
     energy_opt |-> term.energy_opt, energy_sp |-> term.energy_sp]

\* C14: in extract_reaction_thermo_files the output files used for a
\* molecule, reactant or product alike, are the files whose name contains the
\* role prefix, the identifier of the molecule and the output-file marker:
\* the values of its term are the values read from exactly these files.
C14_Claimed ==
    Returned("extract_reaction_thermo_files") =>
        /\ \A i \in 1..Len(ret.rct_terms) :
              LocalsOf(ret.rct_terms[i])
                 = MolLocals(NamedFor(fs[ret.args[1]], reactant_pre,
                                      SubSeq(ret.rct_terms[i].key, Len(reactant_pre) + 1,
                                             Len(ret.rct_terms[i].key))))
        /\ \A i \in 1..Len(ret.pro_terms) :
              LocalsOf(ret.pro_terms[i])
                 = MolLocals(NamedFor(fs[ret.args[1]], product_pre,
                                      SubSeq(ret.pro_terms[i].key, Len(product_pre) + 1,
                                             Len(ret.pro_terms[i].key))))

\* the calculation type of an output file: the first of the types, in the
\* given order, that its name contains
TypeIn(name, order) ==
    IF \E k \in 1..Len(order) : Contains(name, order[k])
    THEN order[CHOOSE k \in 1..Len(order) :
                  /\ Contains(name, order[k])
                  /\ \A j \in 1..(k - 1) : ~Contains(name, order[j])]
    ELSE "none"

\* the value of a field that the files of one type leave for a molecule: the
\* value of the last such file, 0 when there is none
ValueOfType(outs, order, type, field) ==
    LET at == {i \in 1..Len(outs) : TypeIn(outs[i].name, order) = type}
    IN IF at = {} THEN 0
       ELSE GetOrZero(outs[CHOOSE i \in at : \A j \in at : j <= i].data[field])

\* a term holds, of the output files of its molecule, the values of the
\* files of each type alone
BoundIn(term, outs, order) ==
    /\ term.enthalpy = ValueOfType(outs, order, "freq", "enthalpy")
    /\ term.entropy = ValueOfType(outs, order, "freq", "entropy")
    /\ term.energy_opt = ValueOfType(outs, order, "opt", "final_energy")
    /\ term.energy_sp = ValueOfType(outs, order, "sp", "final_energy_sp")

IdOf(term, pre) == SubSeq(term.key, Len(pre) + 1, Len(term.key))

AllBoundIn(order) ==
    Returned("extract_reaction_thermo_files") =>
        /\ \A i \in 1..Len(ret.rct_terms) :
              BoundIn(ret.rct_terms[i],
                      RctOutputs(fs[ret.args[1]], IdOf(ret.rct_terms[i], reactant_pre)), order)
        /\ \A i \in 1..Len(ret.pro_terms) :
              BoundIn(ret.pro_terms[i],
                      ProOutputs(fs[ret.args[1]], IdOf(ret.pro_terms[i], product_pre)), order)

\* C15 as claimed: every output file is bound to one calculation type by the
\* first matching test in the order "opt", "freq", "sp".
C15_Claimed == AllBoundIn(<<"opt", "freq", "sp">>)

\* C15: every output file is bound to one calculation type, by the first
\* matching substring test in the order "freq", "opt", "sp": its values feed
\* only the frequency enthalpy and entropy, only the optimization energy or
\* only the single-point energy, and a file whose name holds none of the
\* three feeds nothing.
C15_FirstMatchBinds == AllBoundIn(<<"freq", "opt", "sp">>)

\* a product with an output named for two types and one named for none
C15_Witness ==
    /\ Returned("extract_reaction_thermo_files")
    /\ \E i, j, k \in 1..Len(fs[ret.args[1]]) :
          /\ fs[ret.args[1]][i].name = "pro_3.mol"
          /\ fs[ret.args[1]][j].name = "pro_3_opt_freq.out"
          /\ fs[ret.args[1]][k].name = "pro_3_notes.out"
          /\ j < k
    /\ Len(ret.pro_terms) = 1
    /\ ret.pro_terms[1].enthalpy = 10
    /\ ret.pro_terms[1].energy_opt = 0
    /\ ret.pro_terms[1].energy_sp = 0

----------------------------------------------------------------------------
(* The recording operations alone, over the directories of the store runs *)

NextRecord ==
    \/ \E d \in Dirs : \E m \in Range(MolFilesOf(fs[d])) :
          record_molecule_data_db(extract_id(m), d, Stem(m), Stem(m))
    \/ \E d \in Dirs, r \in RecordArgs :
          record_reaction_data_db(d, r[1], r[2], r[3][1], r[3][2], r[3][3])

SpecRecord == Init /\ [][NextRecord]_vars

\* s is t with one document more at its end
Appended(s, t) == Len(s) = Len(t) + 1 /\ SubSeq(s, 1, Len(t)) = t

\* C16: under record_reaction_data_db and record_molecule_data_db the store
\* is append-only: a call that succeeds adds one document at the end of its
\* collection (thermo, respectively molecules) and leaves the other
\* collection alone, a call that fails adds none, and no document of the
\* store is changed or removed.
C16_AppendOnly ==
    [][ /\ ret'.op = "record_reaction_data_db" =>
              /\ molecules' = molecules
              /\ IF ret'.status = "returned"
                 THEN Appended(thermo', thermo) /\ thermo'[Len(thermo')] = ret'.inserted
                 ELSE thermo' = thermo
        /\ ret'.op = "record_molecule_data_db" =>
              /\ thermo' = thermo
              /\ IF ret'.status = "returned"
                 THEN Appended(molecules', molecules)
                      /\ molecules'[Len(molecules')].mol_id = ret'.args[1]
                 ELSE molecules' = molecules
      ]_vars

\* the same reaction recorded twice: two documents
C16_Witness ==
    /\ Returned("record_reaction_data_db")
    /\ Len(thermo) = 2
    /\ thermo[1] = thermo[2]
    /\ thermo[2] = ret.inserted
    /\ Len(molecules) > 0

----------------------------------------------------------------------------
(* copy_outputs_across_directories over a base directory of three reaction  *)
(* directories and one block directory                                      *)

\* listdir(self.base_dir)
BaseListing == <<"block1", "rxn1", "rxn2", "rxn3">>

\* The molecules of these runs and their species (atomic numbers, in the
\* order of the atoms), as get_molecule and QCOutput read them
CopyMols == <<"rct_1.mol", "rct_2.mol", "pro_3.mol">>
SpeciesOf(molname) ==
    IF molname = "rct_1.mol" THEN <<6, 1>>
    ELSE IF molname = "rct_2.mol" THEN <<1, 8>>
    ELSE <<8, 6, 1>>

SpeciesMol(molname) ==
    [name |-> molname, atoms |-> Len(SpeciesOf(molname)), data |-> NoData,
     species |-> SpeciesOf(molname)]
SpeciesOut(molname) ==
    [name |-> Stem(molname) \o "_opt.out", atoms |-> 0, data |-> NoData,
     species |-> SpeciesOf(molname)]

\* a directory holds, of each molecule, nothing ("no"), the .mol file ("mol")
\* or the .mol file with an output ("out")
RECURSIVE CopyListing(_, _)
CopyListing(i, has) ==
    IF i > Len(CopyMols) THEN <<>>
    ELSE (IF has[i] = "no" THEN <<>>
          ELSE IF has[i] = "mol" THEN <<SpeciesMol(CopyMols[i])>>
          ELSE <<SpeciesMol(CopyMols[i]), SpeciesOut(CopyMols[i])>>)
         \o CopyListing(i + 1, has)

CopyDirs == { CopyListing(1, has) : has \in [1..Len(CopyMols) -> {"no", "mol", "out"}] }

\* sorted(species)
RECURSIVE SortedInts(_)
SortedInts(s) ==
    IF s = <<>> THEN <<>>
    ELSE LET least == CHOOSE i \in 1..Len(s) :
                         /\ \A j \in 1..Len(s) : s[i] <= s[j]
                         /\ \A j \in 1..(i - 1) : s[j] > s[i]
         IN <<s[least]>> \o SortedInts(SubSeq(s, 1, least - 1) \o SubSeq(s, least + 1, Len(s)))

\* line 514: the subdirectories that are no block directories
NonBlock(listing) ==
    LET Keep(d) == ~StartsWith(d, "block")
    IN SelectSeq(listing, Keep)

\* lines 519 and 545: the files of a directory with ".out" in their name
OutFilesOf(listing) ==
    LET IsOut(f) == Contains(f.name, ".out")
    IN SelectSeq(listing, IsOut)

\* lines 518 and 544: the .mol files of a directory
MolsOf(listing) ==
    LET IsMol(f) == EndsWith(f.name, ".mol")
    IN SelectSeq(listing, IsMol)

\* lines 546-558: the files of other_d to copy for the molecule file mf; the
\* last .mol file of other_d that names the identifier decides
ToCopy(other, mf) ==
    LET Named(f) == EndsWith(f.name, ".mol") /\ Contains(f.name, extract_id(mf.name))
        other_mol_files == SelectSeq(other, Named)
        IsPro(f) == StartsWith(f.name, product_pre)
        IsSameRct(f) == StartsWith(f.name, reactant_pre) /\ f.species = mf.species
    IN IF other_mol_files = <<>> THEN <<>>
       ELSE IF StartsWith(other_mol_files[Len(other_mol_files)].name, product_pre)
       THEN SelectSeq(OutFilesOf(other), IsPro)
       ELSE IF StartsWith(other_mol_files[Len(other_mol_files)].name, reactant_pre)
       THEN SelectSeq(OutFilesOf(other), IsSameRct)
       ELSE <<>>

\* line 560: shutil.copyfile(join(other_p, file), join(start_p, file + "_copy"))
CopyFile(listing, file) ==
    LET copy == [file EXCEPT !.name = file.name \o "_copy"]
    IN IF \E i \in 1..Len(listing) : listing[i].name = copy.name
       THEN [i \in 1..Len(listing) |->
                IF listing[i].name = copy.name THEN copy ELSE listing[i]]
       ELSE Append(listing, copy)

RECURSIVE CopyFiles(_, _)
CopyFiles(listing, to_copy) ==
    IF to_copy = <<>> THEN listing
    ELSE CopyFiles(CopyFile(listing, Head(to_copy)), Tail(to_copy))

\* lines 559-564: the copies of one other directory and the flag after them
AfterCopies(st, start_d, to_copy) ==
    [files |-> [st.files EXCEPT ![start_d] = CopyFiles(@, to_copy)],
     files_copied |-> st.files_copied + Len(to_copy),
     is_covered |-> st.is_covered \/ st.files_copied + Len(to_copy) > 0]

\* lines 535-564: for other_d in dirs
RECURSIVE OverOthers(_, _, _, _, _)
OverOthers(st, dirs, start_d, mf, k) ==
    IF k > Len(dirs) THEN st
    ELSE IF dirs[k] = start_d THEN OverOthers(st, dirs, start_d, mf, k + 1)
    ELSE IF st.is_covered THEN st
    ELSE OverOthers(AfterCopies(st, start_d, ToCopy(st.files[dirs[k]], mf)),
                    dirs, start_d, mf, k + 1)

\* lines 526-530: some output of the directory has the species of the molecule
IsCovered(out_files, mf) ==
    \E i \in 1..Len(out_files) :
        SortedInts(out_files[i].species) = SortedInts(mf.species)

\* lines 521-564: for mf in mol_files
RECURSIVE OverMols(_, _, _, _, _, _)
OverMols(st, dirs, start_d, mol_files, out_files, i) ==
    IF i > Len(mol_files) THEN st
    ELSE IF IsCovered(out_files, mol_files[i])
    THEN OverMols(st, dirs, start_d, mol_files, out_files, i + 1)
    ELSE OverMols(OverOthers([st EXCEPT !.is_covered = FALSE], dirs, start_d, mol_files[i], 1),
                  dirs, start_d, mol_files, out_files, i + 1)

\* lines 516-564: for start_d in dirs
RECURSIVE OverDirs(_, _, _)
OverDirs(st, dirs, j) ==
    IF j > Len(dirs) THEN st
    ELSE OverDirs(OverMols(st, dirs, dirs[j], MolsOf(st.files[dirs[j]]),
                           OutFilesOf(st.files[dirs[j]]), 1),
                  dirs, j + 1)

\* lines 512-567
CopyOutputs(files) ==
    OverDirs([files |-> files, files_copied |-> 0, is_covered |-> FALSE],
             NonBlock(BaseListing), 1)

CopyDone(st) ==
    /\ fs' = st.files
    /\ ret' = Outcome("copy_outputs_across_directories", <<>>,
                      [status |-> "returned", error |-> "",
                       files_copied |-> st.files_copied])
    /\ UNCHANGED <<report, db, molecules, thermo>>

copy_outputs_across_directories == CopyDone(CopyOutputs(fs))

\* a block directory with every molecule and its output
BlockDir == CopyListing(1, [i \in 1..Len(CopyMols) |-> "out"])

InitCopy ==
    /\ fs \in { [d \in Range(BaseListing) |->
                   IF StartsWith(d, "block") THEN BlockDir ELSE f[d]] :
                f \in [Range(NonBlock(BaseListing)) -> CopyDirs] }
    /\ report = [d \in Range(BaseListing) |-> NoFile]
    /\ db = "None"
    /\ molecules = <<>>
    /\ thermo = <<>>
    /\ ret = [op |-> "__init__", args |-> <<>>, status |-> "returned", error |-> ""]

NextCopy == copy_outputs_across_directories

SpecCopy == InitCopy /\ [][NextCopy]_vars

\* some directory other than d, no block directory, holds a .mol file with the
\* identifier of mf and an output of the role and the species of mf
HeldElsewhere(files, d, mf) ==
    \E other \in Range(NonBlock(BaseListing)) \ {d} :
        /\ \E i \in 1..Len(files[other]) :
              /\ EndsWith(files[other][i].name, ".mol")
              /\ extract_id(files[other][i].name) = extract_id(mf.name)
        /\ \E i \in 1..Len(files[other]) :
              /\ Contains(files[other][i].name, ".out")
              /\ StartsWith(files[other][i].name, SubSeq(mf.name, 1, 4))
              /\ files[other][i].species = mf.species

\* C17: after copy_outputs_across_directories every directory that is no
\* block directory has outputs for each of its molecules that needs them: a
\* .mol file without a matching output in its directory, whose identifier
\* another directory holds together with matching outputs, has a copied
\* output (suffix "_copy") in its directory afterwards, whatever the run
\* copied before for other molecules.
C17_Claimed ==
    [][ ret'.op = "copy_outputs_across_directories" =>
           \A d \in Range(NonBlock(BaseListing)) :
              \A i \in 1..Len(fs[d]) :
                 (/\ EndsWith(fs[d][i].name, ".mol")
                  /\ ~IsCovered(OutFilesOf(fs[d]), fs[d][i])
                  /\ HeldElsewhere(fs, d, fs[d][i]))
                 => \E k \in 1..Len(fs'[d]) :
                       /\ EndsWith(fs'[d][k].name, "_copy")
                       /\ fs'[d][k].species = fs[d][i].species
      ]_vars

----------------------------------------------------------------------------
(* get_completed_reactions over a base directory of two reaction            *)
(* directories and a block directory, while molecules are recorded          *)

\* Directories of up to MaxMols molecules with all their calculations
CompletedDirs ==
    ReactionDirsOf(MaxMols, {p \in StoreProfiles : p.sp # None})

InitCompleted ==
    /\ fs \in { [d \in {"block1", "rxn1", "rxn2"} |->
                   IF d = "block1" THEN <<>> ELSE f[d]] :
                f \in [{"rxn1", "rxn2"} -> CompletedDirs] }
    /\ report = [d \in {"block1", "rxn1", "rxn2"} |-> NoFile]
    /\ db \in {"None", "connected"}
    /\ molecules = <<>>
    /\ thermo = <<>>
    /\ ret = [op |-> "__init__", args |-> <<>>, status |-> "returned", error |-> ""]

NextCompleted ==
    \/ \E d \in Dirs : \E m \in Range(MolFilesOf(fs[d])) :
          record_molecule_data_db(extract_id(m), d, Stem(m), Stem(m))
    \/ get_completed_reactions

SpecCompleted == InitCompleted /\ [][NextCompleted]_vars

\* some document of the molecules collection has this mol_id
Recorded(mol_id) == \E i \in 1..Len(molecules) : molecules[i].mol_id = mol_id

\* every .mol file of the directory has its identifier recorded
AllMolsRecorded(d) ==
    \A i \in 1..Len(fs[d]) :
        EndsWith(fs[d][i].name, ".mol") => Recorded(extract_id(fs[d][i].name))

\* C18: get_completed_reactions returns exactly the subdirectories of
\* base_dir, not starting with "block", in which the identifier of every .mol
\* file is the mol_id of a document of the molecules collection: a directory
\* is returned once all its molecules are recorded and not before.
C18_CompletedReactions ==
    Returned("get_completed_reactions") =>
        \A d \in DOMAIN fs :
            d \in ret.value <=> (~StartsWith(d, "block") /\ AllMolsRecorded(d))

\* one directory complete with its two molecules recorded, the other one
\* lacking a document, the (complete) block directory left out
C18_Witness ==
    /\ Returned("get_completed_reactions")
    /\ ret.value = {"rxn1"}
    /\ Len(MolFilesOf(fs["rxn1"])) = 2
    /\ Len(molecules) = 2
    /\ AllMolsRecorded("block1")
    /\ \E i \in 1..Len(fs["rxn2"]) :
          EndsWith(fs["rxn2"][i].name, ".mol") /\ ~Recorded(extract_id(fs["rxn2"][i].name))

----------------------------------------------------------------------------
(* get_completed_molecules over a base directory of two reaction            *)
(* directories and a block directory                                        *)

CalcTypes == <<"opt", "freq", "sp">>

\* an output file and the completion QCOutput reads from it ("True", "False",
\* or "missing" when the data has no such key)
DoneOut(name, completion) ==
    [name |-> name, atoms |-> 0, data |-> [completion |-> completion]]

\* The files of a molecule whose calculation of each type has no output
\* ("nofile") or an output with that completion
RECURSIVE DoneOutputs(_, _, _)
DoneOutputs(molname, has, k) ==
    IF k > Len(CalcTypes) THEN <<>>
    ELSE (IF has[k] = "nofile" THEN <<>>
          ELSE <<DoneOut(Stem(molname) \o "_" \o CalcTypes[k] \o ".out", has[k])>>)
         \o DoneOutputs(molname, has, k + 1)

DoneDirsOf(molname) ==
    {<<>>} \cup
    { <<[name |-> molname, atoms |-> 1, data |-> [completion |-> "missing"]]>>
        \o DoneOutputs(molname, has, 1) :
      has \in [1..Len(CalcTypes) -> {"nofile", "False", "True"}] }

\* associate_qchem_to_mol(base_dir, d): for each .mol file of the directory
\* the output files that carry its name
AssociateOut(listing, molname) ==
    LET Match(f) == StartsWith(f.name, Stem(molname)) /\ Contains(f.name, ".out")
    IN SelectSeq(listing, Match)

\* lines 645-652: the molecule is completed if one of its outputs with "sp"
\* in its name reports completion
SpCompleted(qcfiles) ==
    \E i \in 1..Len(qcfiles) :
        Contains(qcfiles[i].name, "sp") /\ qcfiles[i].data.completion = "True"

\* lines 631-634: the directories searched
SearchedDirs(files, dirs) ==
    {d \in DOMAIN files :
        /\ ~StartsWith(d, "block")
        /\ dirs[1] = "list" => d \in Range(dirs[2])}

\* lines 626-654
CompletedMolecules(files, dirs, extra) ==
    LET found == { <<d, m>> \in SearchedDirs(files, dirs) \X MolUniverse :
                     /\ m \in Range(MolFilesOf(files[d]))
                     /\ SpCompleted(AssociateOut(files[d], m)) }
    IN IF extra THEN { <<x[1], x[2], extract_id(x[2])>> : x \in found }
       ELSE { extract_id(x[2]) : x \in found }

get_completed_molecules(dirs, extra) ==
    /\ ret' = Outcome("get_completed_molecules", <<dirs, extra>>,
                      [status |-> "returned", error |-> "",
                       value |-> CompletedMolecules(fs, dirs, extra)])
    /\ UNCHANGED <<fs, report, db, molecules, thermo>>

InitMolecules ==
    /\ fs \in { [d \in {"block1", "rxn1", "rxn2"} |->
                   IF d = "block1"
                   THEN <<[name |-> "rct_2.mol", atoms |-> 1, data |-> [completion |-> "missing"]]>>
                        \o DoneOutputs("rct_2.mol", <<"True", "True", "True">>, 1)
                   ELSE IF d = "rxn1" THEN a ELSE b] :
                <<a, b>> \in DoneDirsOf("rct_1.mol")
                             \X (DoneDirsOf("rct_1.mol") \cup DoneDirsOf("pro_3.mol")) }
    /\ report = [d \in {"block1", "rxn1", "rxn2"} |-> NoFile]
    /\ db = "None"
    /\ molecules = <<>>
    /\ thermo = <<>>
    /\ ret = [op |-> "__init__", args |-> <<>>, status |-> "returned", error |-> ""]

NextMolecules ==
    \E dirs \in { <<"None", <<>> >>, <<"list", <<"rxn1">> >>, <<"list", <<"rxn2">> >>,
                 <<"list", <<"block1", "rxn1">> >> } :
       \E extra \in BOOLEAN : get_completed_molecules(dirs, extra)

SpecMolecules == InitMolecules /\ [][NextMolecules]_vars

\* the molecule file in the directory has an output of the type that reports
\* completion
DoneInDir(d, molname, type) ==
    \E i \in 1..Len(fs[d]) :
        /\ fs[d][i].name = Stem(molname) \o "_" \o type \o ".out"
        /\ fs[d][i].data.completion = "True"

\* C19: get_completed_molecules returns the identifiers of exactly the
\* molecules that, in some searched directory (no block directory, and in
\* dirs when dirs is given), have a completed output of each of the types
\* opt, freq and sp.
C19_Claimed ==
    (Returned("get_completed_molecules") /\ ~ret.args[2]) =>
        \A m \in MolUniverse :
            extract_id(m) \in ret.value
               <=> \E d \in SearchedDirs(fs, ret.args[1]) :
                      /\ m \in Range(MolFilesOf(fs[d]))
                      /\ \A k \in 1..Len(CalcTypes) : DoneInDir(d, m, CalcTypes[k])

----------------------------------------------------------------------------
(* MolThermAnalyzer._setup_dataset over datasets of one or two reactions *)

\* self.func_groups, self.in_features and self.dep_features as given to the
\* constructor
func_groups == <<"alkene", "ester">>
in_features == <<"number_atoms">>
dep_features == <<"enthalpy">>

\* mol["functional_groups"]: each group the molecule has, with its count
GroupDicts ==
    UNION { [S -> {1, 2}] : S \in SUBSET Range(func_groups) }

\* a molecule as get_molecule_data returns it
MolData(id, grps) ==
    [id |-> id, number_atoms |-> 1, enthalpy |-> 1, energy |-> 1,
     functional_groups |-> grps]

\* a reaction as get_reaction_data returns it
ReactionOf(directory, product, reactants) ==
    [directory |-> directory,
     mol_ids |-> [k \in 1..(Len(reactants) + 1) |->
                     IF k = 1 THEN product.id ELSE reactants[k - 1].id],
     product |-> product,
     reactants |-> reactants]

ReactantLists(n) ==
    UNION { { [k \in 1..m |-> MolData(<<"1", "2">>[k], g[k])] : g \in [1..m -> GroupDicts] } :
            m \in 0..n }

ReactionsOf(directory, n) ==
    { ReactionOf(directory, MolData("3", g), r) :
        <<g, r>> \in GroupDicts \X ReactantLists(n) }

\* one reaction of up to two reactants, or two reactions of up to one
Datasets ==
    { <<a>> : a \in ReactionsOf("rxn1", 2) }
    \cup { <<a, b>> : <<a, b>> \in ReactionsOf("rxn1", 1) \X ReactionsOf("rxn2", 1) }

\* lines 851-858: all_molecules, each molecule once, products first
RECURSIVE AddNew(_, _)
AddNew(all, mols) ==
    IF mols = <<>> THEN all
    ELSE AddNew(IF Head(mols) \in Range(all) THEN all ELSE Append(all, Head(mols)),
                Tail(mols))

RECURSIVE AllMolecules(_, _, _)
AllMolecules(dataset, i, all) ==
    IF i > Len(dataset) THEN all
    ELSE AllMolecules(dataset, i + 1,
                      AddNew(all, <<dataset[i].product>> \o dataset[i].reactants))

\* lines 871-872 and 878-884: the value of a marker of a molecule
MarkerOf(mol, marker) ==
    IF marker = "enthalpy" THEN mol.enthalpy + mol.energy ELSE mol[marker]

\* lines 877-889: product minus reactants
ReactionMarker(react, marker) ==
    MarkerOf(react.product, marker)
    - SumSeq([k \in 1..Len(react.reactants) |-> MarkerOf(react.reactants[k], marker)])

\* lines 894-897 and 906-907: the count of a group in a molecule, 0 without it
CountIn(mol, grp) ==
    IF grp \in DOMAIN mol.functional_groups THEN mol.functional_groups[grp] ELSE 0

\* line 911: rct_grps += count, an addition to the whole array
AddToAll(arr, count) == [j \in 1..Len(arr) |-> arr[j] + count]

\* lines 909-911: for mol in react["reactants"], for one group
RECURSIVE OverReactants(_, _, _, _)
OverReactants(rct_grps, reactants, grp, k) ==
    IF k > Len(reactants) THEN rct_grps
    ELSE OverReactants(IF grp \in DOMAIN reactants[k].functional_groups
                       THEN AddToAll(rct_grps, reactants[k].functional_groups[grp])
                       ELSE rct_grps,
                       reactants, grp, k + 1)

\* lines 905-911: for j, grp in enumerate(self.func_groups)
RECURSIVE RctGrps(_, _, _)
RctGrps(rct_grps, react, j) ==
    IF j > Len(func_groups) THEN rct_grps
    ELSE RctGrps(OverReactants(rct_grps, react.reactants, func_groups[j], 1), react, j + 1)

\* lines 902-913: the row of one reaction
GroupRow(react, rct_grps) ==
    [j \in 1..Len(func_groups) |-> CountIn(react.product, func_groups[j]) - rct_grps[j]]

ReactionGroups(react) ==
    GroupRow(react, RctGrps([j \in 1..Len(func_groups) |-> 0], react, 1))

\* lines 846-915
SetupDataset(dataset, all_molecules) ==
    [molecules |->
        [ids |-> [i \in 1..Len(all_molecules) |-> all_molecules[i].id],
         number_atoms |-> [i \in 1..Len(all_molecules) |->
                              MarkerOf(all_molecules[i], "number_atoms")],
         enthalpy |-> [i \in 1..Len(all_molecules) |->
                          MarkerOf(all_molecules[i], "enthalpy")],
         functional_groups |->
            [i \in 1..Len(all_molecules) |->
                [j \in 1..Len(func_groups) |-> CountIn(all_molecules[i], func_groups[j])]]],
     reactions |->
        [ids |-> [i \in 1..Len(dataset) |-> dataset[i].mol_ids],
         dirs |-> [i \in 1..Len(dataset) |-> dataset[i].directory],
         number_atoms |-> [i \in 1..Len(dataset) |-> ReactionMarker(dataset[i], "number_atoms")],
         enthalpy |-> [i \in 1..Len(dataset) |-> ReactionMarker(dataset[i], "enthalpy")],
         functional_groups |-> [i \in 1..Len(dataset) |-> ReactionGroups(dataset[i])]]]

\* lines 815-816: the constructor calls _setup_dataset, once for an analyzer
_setup_dataset(dataset) ==
    /\ ret.op = "__init__"
    /\ ret' = Outcome("_setup_dataset", <<dataset>>,
                      [status |-> "returned", error |-> "",
                       value |-> SetupDataset(dataset, AllMolecules(dataset, 1, <<>>))])
    /\ UNCHANGED <<fs, report, db, molecules, thermo>>

InitAnalyzer ==
    /\ fs = [d \in {"rxn1", "rxn2"} |-> <<>>]
    /\ report = [d \in {"rxn1", "rxn2"} |-> NoFile]
    /\ db = "None"
    /\ molecules = <<>>
    /\ thermo = <<>>
    /\ ret = [op |-> "__init__", args |-> <<>>, status |-> "returned", error |-> ""]

NextAnalyzer == \E dataset \in Datasets : _setup_dataset(dataset)

SpecAnalyzer == InitAnalyzer /\ [][NextAnalyzer]_vars

\* C20: in _setup_dataset the entry functional_groups[i][j] of a reaction is
\* the count of group j in the product minus the sum of the counts of group j
\* in the reactants of the reaction (0 for a molecule without the group): the
\* count a reactant has of one group changes the entry of no other group.
C20_Claimed ==
    Returned("_setup_dataset") =>
        \A i \in 1..Len(ret.args[1]) : \A j \in 1..Len(func_groups) :
            ret.value.reactions.functional_groups[i][j]
               = CountIn(ret.args[1][i].product, func_groups[j])
                 - SumSeq([k \in 1..Len(ret.args[1][i].reactants) |->
                             CountIn(ret.args[1][i].reactants[k], func_groups[j])])

\* C21: a record_reaction_data_file call that raises leaves the report file of
\* its directory as it was before the call: neither created, nor emptied, nor
\* partly written.
C21_Claimed ==
    [][(ret'.op = "record_reaction_data_file" /\ ret'.status = "raised") =>
           report'[ret'.args[1]] = report[ret'.args[1]]]_vars

\* the output files two molecule files of a role have in common
SharedOutputs(outputs_i, outputs_j) == Range(outputs_i) \cap Range(outputs_j)

\* C22: in extract_reaction_thermo_files every reactant or product .mol file
\* contributes exactly one term to the sums of its role, and the lists of
\* output files associated with two distinct molecule files of the same role
\* are disjoint, so that an output file contributes to at most one molecule.
C22_Claimed ==
    Returned("extract_reaction_thermo_files") =>
        LET listing == fs[ret.args[1]]
            rct_ids == IdsWithPrefix(listing, reactant_pre)
            pro_ids == IdsWithPrefix(listing, product_pre)
        IN /\ Len(ret.rct_terms) = Len(rct_ids)
           /\ Len(ret.pro_terms) = Len(pro_ids)
           /\ \A i, j \in 1..Len(rct_ids) :
                 i # j => SharedOutputs(RctOutputs(listing, rct_ids[i]),
                                        RctOutputs(listing, rct_ids[j])) = {}
           /\ \A i, j \in 1..Len(pro_ids) :
                 i # j => SharedOutputs(ProOutputs(listing, pro_ids[i]),
                                        ProOutputs(listing, pro_ids[j])) = {}

====
